---- MODULE Spec2Model ----
(***************************************************************************)
(* NumiBank: an in-memory loan ledger (bank.py, models.py,                 *)
(* numibank_validators.py, numibank_exceptions.py).                        *)
(*                                                                         *)
(* Decimal values are modelled as exact fixed-point numbers: an integer    *)
(* counts hundredths, so Decimal(10) is 1000 and the rate Decimal("0.05")  *)
(* is 5.  The product of two such numbers is (a * b) \div Unit, which is   *)
(* exact for every principal the model lends (whole currency units).       *)
(***************************************************************************)
EXTENDS Integers, Sequences, FiniteSets, TLC

(* One currency unit, and the rate 1.0, in hundredths. *)
Unit == 100

(* ------------------------------------------------------------------ *)
(* Bounds of the model.                                                 *)
(* ------------------------------------------------------------------ *)

(* Longest repayment sequence a loan is allowed to grow to. *)
MaxRepayments == 2

(* The ids uuid4 can hand out, and the names callers pass. *)
CustomerIds == {"id1", "id2"}
Names == {"Muniu Kariuki"}

(* ------------------------------------------------------------------ *)
(* constants module (imported by models.py and bank.py): loans of 10 to *)
(* 100, rates of 0.0 to 1.0, as in Validator.is_valid_loan_amount and   *)
(* Validator.is_valid_interest_rate.                                    *)
(* ------------------------------------------------------------------ *)
MINIMUM_LOAN_AMOUNT == 10 * Unit
MAXIMUM_LOAN_AMOUNT == 100 * Unit
MINIMUM_INTEREST_RATE == 0 * Unit
MAXIMUM_INTEREST_RATE == 1 * Unit

(* The arguments callers pass: principals, rates and repayment amounts, *)
(* valid and invalid ones, in hundredths.                              *)
LendAmounts == {-1 * Unit, 0, 9 * Unit, 10 * Unit, 100 * Unit, 101 * Unit}
InterestRates == {-1, 0, 5, 100, 101}
RepayAmounts == {-1 * Unit, 0, 5 * Unit, 15 * Unit, 100 * Unit}

VARIABLES
    customers,  \* NumiBank.customers: customer id -> Customer
    loans,      \* NumiBank.loans: customer id -> Loan
    lastcall,   \* the last call made on the bank: its operation, customer id and outcome
    inflight    \* per calling thread: the call it is in, between the check and the mutation

vars == <<customers, loans, lastcall, inflight>>

(* ------------------------------------------------------------------ *)
(* Outcomes of a call: a returned value or a raised exception.          *)
(* ------------------------------------------------------------------ *)
NoError == "None"
NoValue == "None"

Return(v) == [exc |-> NoError, message |-> "", value |-> v]
Raise(e, m) == [exc |-> e, message |-> m, value |-> NoValue]

(* ------------------------------------------------------------------ *)
(* numibank_validators.py                                               *)
(* ------------------------------------------------------------------ *)
is_positive(value) ==
    IF value <= 0
    THEN Raise("ValueError", "{value} is not a valid amount. Only positive values allowed.")
    ELSE Return(TRUE)

is_within_range(value, lower_bound, upper_bound) ==
    IF value < lower_bound \/ value > upper_bound
    THEN Raise("ValueError", "{value} must be between {lower_bound} and {upper_bound}.")
    ELSE Return(TRUE)

(* ------------------------------------------------------------------ *)
(* models.py                                                            *)
(* ------------------------------------------------------------------ *)
Customer(name, id) == [name |-> name, id |-> id]

(* A variant that takes any object for a Customer. *)
isinstance_Customer_any(customer) ==
    TRUE

isinstance_Customer(customer) ==
    DOMAIN customer = {"name", "id"}

(* Loan.__init__: the rate is checked first, then the amount, then the *)
(* customer; an exception raised by a validator propagates.            *)
Loan(customer, amount, interest_rate) ==
    LET rate_ok == is_within_range(interest_rate, MINIMUM_INTEREST_RATE, MAXIMUM_INTEREST_RATE)
        amount_ok == is_within_range(amount, MINIMUM_LOAN_AMOUNT, MAXIMUM_LOAN_AMOUNT)
    IN  IF rate_ok.exc # NoError THEN rate_ok
        ELSE IF ~rate_ok.value
        THEN Raise("InvalidInterestRateError",
                   "Interest rate must be between {MINIMUM_INTEREST_RATE} and {MAXIMUM_INTEREST_RATE}")
        ELSE IF amount_ok.exc # NoError THEN amount_ok
        ELSE IF ~amount_ok.value
        THEN Raise("InvalidLoanAmountError",
                   "Loan amount must be between {MINIMUM_LOAN_AMOUNT} and {MAXIMUM_LOAN_AMOUNT}")
        ELSE IF ~isinstance_Customer(customer)
        THEN Raise("NumiBankError", "Invalid customer object")
        ELSE Return([customer |-> customer,
                     amount |-> amount,
                     interest_rate |-> interest_rate,
                     repayments |-> <<>>])

RECURSIVE sum(_)
sum(seq) == IF seq = <<>> THEN 0 ELSE Head(seq) + sum(Tail(seq))

total_repayments(loan) == sum(loan.repayments)

(* A variant that charges the interest from the start. *)
outstanding_debt_with_interest(loan) ==
    loan.amount + (loan.amount * loan.interest_rate) \div Unit - total_repayments(loan)

outstanding_debt(loan) ==
    IF loan.repayments = <<>>
    THEN loan.amount
    ELSE LET total_interest == (loan.amount * loan.interest_rate) \div Unit
         IN  loan.amount + total_interest - total_repayments(loan)

(* Loan.repayments: a copy of the list. *)
repayments(loan) == loan.repayments

(* Whether the list Loan.repayments returns is the loan's own list      *)
(* object: a variant that returns self._repayments itself.              *)
repayments_is_own_list_uncopied(loan) == TRUE

(* copy(self._repayments) is a new list object, never the loan's own.   *)
repayments_is_own_list(loan) == FALSE

(* A variant without the check against the outstanding debt. *)
add_repayment_unchecked(loan, amount) ==
    LET positive == is_positive(amount)
    IN  IF positive.exc # NoError THEN positive
        ELSE IF ~positive.value
        THEN Raise("InvalidLoanRepaymentAmountError", "Amount must be positive")
        ELSE Return([loan EXCEPT !.repayments = Append(@, amount)])

(* A variant that checks against the debt before any repayment. *)
add_repayment_stale(loan, amount) ==
    LET positive == is_positive(amount)
        total_interest == (loan.amount * loan.interest_rate) \div Unit
    IN  IF positive.exc # NoError THEN positive
        ELSE IF ~positive.value
        THEN Raise("InvalidLoanRepaymentAmountError", "Amount must be positive")
        ELSE IF amount > loan.amount + total_interest
        THEN Raise("InvalidLoanRepaymentAmountError", "Amount exceeds outstanding debt")
        ELSE Return([loan EXCEPT !.repayments = Append(@, amount)])

(* A variant that puts the new repayment at the front of the list. *)
add_repayment_prepend(loan, amount) ==
    LET positive == is_positive(amount)
    IN  IF positive.exc # NoError THEN positive
        ELSE IF ~positive.value
        THEN Raise("InvalidLoanRepaymentAmountError", "Amount must be positive")
        ELSE IF amount > outstanding_debt(loan)
        THEN Raise("InvalidLoanRepaymentAmountError", "Amount exceeds outstanding debt")
        ELSE Return([loan EXCEPT !.repayments = <<amount>> \o @])

(* A variant that takes an amount of any sign up to the debt. *)
add_repayment_any_sign(loan, amount) ==
    IF amount > outstanding_debt(loan)
    THEN Raise("InvalidLoanRepaymentAmountError", "Amount exceeds outstanding debt")
    ELSE Return([loan EXCEPT !.repayments = Append(@, amount)])

(* A variant that refuses to repay the whole outstanding debt at once. *)
add_repayment_below_debt(loan, amount) ==
    LET positive == is_positive(amount)
    IN  IF positive.exc # NoError THEN positive
        ELSE IF ~positive.value
        THEN Raise("InvalidLoanRepaymentAmountError", "Amount must be positive")
        ELSE IF amount >= outstanding_debt(loan)
        THEN Raise("InvalidLoanRepaymentAmountError", "Amount exceeds outstanding debt")
        ELSE Return([loan EXCEPT !.repayments = Append(@, amount)])

(* Loan.add_repayment: returns the loan after the call, or raises. *)
add_repayment(loan, amount) ==
    LET positive == is_positive(amount)
    IN  IF positive.exc # NoError THEN positive
        ELSE IF ~positive.value
        THEN Raise("InvalidLoanRepaymentAmountError", "Amount must be positive")
        ELSE IF amount > outstanding_debt(loan)
        THEN Raise("InvalidLoanRepaymentAmountError", "Amount exceeds outstanding debt")
        ELSE Return([loan EXCEPT !.repayments = Append(@, amount)])

(* ------------------------------------------------------------------ *)
(* bank.py                                                              *)
(* ------------------------------------------------------------------ *)
NoArg == "None"

Call(op, customer_id, outcome) ==
    [op |-> op, customer_id |-> customer_id,
     exc |-> outcome.exc, message |-> outcome.message]

(* The threads that call into one NumiBank, and where a thread is: in   *)
(* no call, past the checks of a call with its arguments at hand, or    *)
(* back from a call that succeeded.                                     *)
Threads == {"t1", "t2"}

Idle == [pc |-> "idle", op |-> NoArg, customer_id |-> NoArg, amount |-> 0, interest_rate |-> 0]

Checked(op, customer_id, amount, interest_rate) ==
    [pc |-> "checked", op |-> op, customer_id |-> customer_id,
     amount |-> amount, interest_rate |-> interest_rate]

Returned(op, customer_id) ==
    [pc |-> "returned", op |-> op, customer_id |-> customer_id, amount |-> 0, interest_rate |-> 0]

(* NumiBank.__init__ *)
Init ==
    /\ customers = << >>
    /\ loans = << >>
    /\ lastcall = Call("__init__", NoArg, Return(NoValue))
    /\ inflight = [t \in Threads |-> Idle]

(* NumiBank._get_customer *)
get_customer(customer_id) ==
    IF customer_id \in DOMAIN customers
    THEN Return(customers[customer_id])
    ELSE Raise("CustomerNotFoundError", "Customer with ID {customer_id} does not exist")

(* A variant that refuses a name that is already registered. *)
create_customer_unique_name(name) ==
    IF \E c \in DOMAIN customers : customers[c].name = name
    THEN /\ lastcall' = Call("create_customer", NoArg,
                             Raise("CustomerAlreadyExistsError",
                                   "Customer with name {name} already exists"))
         /\ UNCHANGED <<customers, loans, inflight>>
    ELSE \E id \in CustomerIds \ DOMAIN customers :
            LET customer == Customer(name, id)
            IN  /\ customers' = customers @@ (customer.id :> customer)
                /\ lastcall' = Call("create_customer", customer.id, Return(customer))
                /\ UNCHANGED <<loans, inflight>>

(* NumiBank.create_customer: uuid4 hands out an id not handed out before. *)
create_customer(name) ==
    \E id \in CustomerIds \ DOMAIN customers :
        LET customer == Customer(name, id)
        IN  /\ customers' = customers @@ (customer.id :> customer)
            /\ lastcall' = Call("create_customer", customer.id, Return(customer))
            /\ UNCHANGED <<loans, inflight>>

(* A variant that lends again once the existing loan is paid off. *)
lend_outcome_paid_off(customer_id, amount, interest_rate) ==
    LET customer == get_customer(customer_id)
    IN  IF customer.exc # NoError THEN customer
        ELSE IF customer_id \in DOMAIN loans /\ outstanding_debt(loans[customer_id]) > 0
        THEN Raise("CustomerHasOutstandingLoanError",
                   "Customer with ID {customer_id} already has an outstanding loan")
        ELSE Loan(customer.value, amount, interest_rate)

(* A variant that validates the loan before it looks the customer up. *)
lend_outcome_validate_first(customer_id, amount, interest_rate) ==
    LET loan == Loan(Customer("", customer_id), amount, interest_rate)
        customer == get_customer(customer_id)
    IN  IF loan.exc # NoError THEN loan
        ELSE IF customer.exc # NoError THEN customer
        ELSE IF customer_id \in DOMAIN loans
        THEN Raise("CustomerHasOutstandingLoanError",
                   "Customer with ID {customer_id} already has an outstanding loan")
        ELSE Loan(customer.value, amount, interest_rate)

(* A variant that lends to an id nobody is registered under. *)
lend_outcome_walk_in(customer_id, amount, interest_rate) ==
    IF customer_id \in DOMAIN loans
    THEN Raise("CustomerHasOutstandingLoanError",
               "Customer with ID {customer_id} already has an outstanding loan")
    ELSE Loan(IF customer_id \in DOMAIN customers
              THEN customers[customer_id]
              ELSE Customer("walk-in", customer_id),
              amount, interest_rate)

(* A variant that lends without looking for an existing loan. *)
lend_outcome_overwriting(customer_id, amount, interest_rate) ==
    LET customer == get_customer(customer_id)
    IN  IF customer.exc # NoError THEN customer
        ELSE Loan(customer.value, amount, interest_rate)

(* The outcome of NumiBank.lend. *)
lend_outcome(customer_id, amount, interest_rate) ==
    LET customer == get_customer(customer_id)
    IN  IF customer.exc # NoError THEN customer
        ELSE IF customer_id \in DOMAIN loans
        THEN Raise("CustomerHasOutstandingLoanError",
                   "Customer with ID {customer_id} already has an outstanding loan")
        ELSE Loan(customer.value, amount, interest_rate)

(* A variant that starts the loan registry afresh with the new loan. *)
lend_resetting(customer_id, amount, interest_rate) ==
    LET outcome == lend_outcome(customer_id, amount, interest_rate)
    IN  /\ loans' = IF outcome.exc = NoError
                    THEN (customer_id :> outcome.value)
                    ELSE loans
        /\ lastcall' = Call("lend", customer_id, outcome)
        /\ UNCHANGED <<customers, inflight>>

(* NumiBank.lend *)
lend(customer_id, amount, interest_rate) ==
    LET outcome == lend_outcome(customer_id, amount, interest_rate)
    IN  /\ loans' = IF outcome.exc = NoError
                    THEN (customer_id :> outcome.value) @@ loans
                    ELSE loans
        /\ lastcall' = Call("lend", customer_id, outcome)
        /\ UNCHANGED <<customers, inflight>>

(* A variant that validates the amount before it looks the loan up. *)
repay_outcome_amount_first(customer_id, amount) ==
    LET customer == get_customer(customer_id)
        positive == is_positive(amount)
    IN  IF customer.exc # NoError THEN customer
        ELSE IF positive.exc # NoError THEN positive
        ELSE IF customer_id \notin DOMAIN loans
        THEN Raise("LoanNotFoundError",
                   "Customer with ID {customer.id} does not have an outstanding loan")
        ELSE add_repayment(loans[customer_id], amount)

(* The outcome of NumiBank.repay. *)
repay_outcome(customer_id, amount) ==
    LET customer == get_customer(customer_id)
    IN  IF customer.exc # NoError THEN customer
        ELSE IF customer_id \notin DOMAIN loans
        THEN Raise("LoanNotFoundError",
                   "Customer with ID {customer.id} does not have an outstanding loan")
        ELSE add_repayment(loans[customer_id], amount)

(* A variant that appends a positive amount before the debt check. *)
repay_append_first(customer_id, amount) ==
    LET outcome == repay_outcome(customer_id, amount)
    IN  /\ outcome.exc = NoError => Len(outcome.value.repayments) <= MaxRepayments
        /\ loans' = IF outcome.exc = NoError
                    THEN [loans EXCEPT ![customer_id] = outcome.value]
                    ELSE IF outcome.exc = "InvalidLoanRepaymentAmountError"
                    THEN [loans EXCEPT ![customer_id].repayments = Append(@, amount)]
                    ELSE loans
        /\ lastcall' = Call("repay", customer_id, outcome)
        /\ UNCHANGED <<customers, inflight>>

(* A variant that closes a loan once it is paid off. *)
repay_closing(customer_id, amount) ==
    LET outcome == repay_outcome(customer_id, amount)
    IN  /\ outcome.exc = NoError => Len(outcome.value.repayments) <= MaxRepayments
        /\ loans' = IF outcome.exc # NoError THEN loans
                    ELSE IF outstanding_debt(outcome.value) = 0
                    THEN [c \in DOMAIN loans \ {customer_id} |-> loans[c]]
                    ELSE [loans EXCEPT ![customer_id] = outcome.value]
        /\ lastcall' = Call("repay", customer_id, outcome)
        /\ UNCHANGED <<customers, inflight>>

(* NumiBank.repay; a repayment that would grow the sequence past the bound *)
(* of the model is not made.                                              *)
repay(customer_id, amount) ==
    LET outcome == repay_outcome(customer_id, amount)
    IN  /\ outcome.exc = NoError => Len(outcome.value.repayments) <= MaxRepayments
        /\ loans' = IF outcome.exc = NoError
                    THEN [loans EXCEPT ![customer_id] = outcome.value]
                    ELSE loans
        /\ lastcall' = Call("repay", customer_id, outcome)
        /\ UNCHANGED <<customers, inflight>>

(* A variant that raises for an unregistered id, and for a customer     *)
(* without a loan.                                                      *)
get_customer_info_outcome_raising(customer_id) ==
    LET customer == get_customer(customer_id)
    IN  IF customer.exc # NoError THEN customer
        ELSE IF customer_id \notin DOMAIN loans
        THEN Raise("CustomerNotFoundError", "Customer with ID {customer_id} not found")
        ELSE Return([customer |-> customer.value, loan |-> loans[customer_id]])

(* What NumiBank.get_customer_info returns: None, or the CustomerInfo. *)
get_customer_info_outcome(customer_id) ==
    LET customer == get_customer(customer_id)
    IN  IF customer.exc = "CustomerNotFoundError" THEN Return(NoValue)
        ELSE IF customer.exc # NoError THEN customer
        ELSE Return([customer |-> customer.value,
                     loan |-> IF customer_id \in DOMAIN loans
                              THEN loans[customer_id]
                              ELSE NoValue])

(* NumiBank.get_customer_info *)
get_customer_info(customer_id) ==
    /\ lastcall' = Call("get_customer_info", customer_id,
                        get_customer_info_outcome(customer_id))
    /\ UNCHANGED <<customers, loans, inflight>>

(* The object a caller passes for the customer when it constructs a    *)
(* Loan itself with something that is no Customer.                      *)
InvalidCustomerObject == [str |-> "invalid customer object"]

(* Loan(customer, amount, interest_rate) called outside the bank: the   *)
(* new Loan is registered nowhere.                                      *)
new_Loan(customer, amount, interest_rate) ==
    /\ lastcall' = Call("Loan",
                        IF customer = InvalidCustomerObject THEN NoArg ELSE customer.id,
                        Loan(customer, amount, interest_rate))
    /\ UNCHANGED <<customers, loans, inflight>>

(* The mutations a caller makes on the list loan.repayments returned. *)
ListMutations == {"append", "clear"}

(* A caller reads loan.repayments of a registered loan and mutates the  *)
(* returned list: returned.append(amount) or returned.clear().  The     *)
(* loan's own list changes with it only when it is the same object.     *)
mutate_repayments(customer_id, mutation, amount) ==
    /\ customer_id \in DOMAIN loans
    /\ LET loan == loans[customer_id]
           returned == repayments(loan)
           mutated == IF mutation = "append" THEN Append(returned, amount) ELSE <<>>
       IN  loans' = IF repayments_is_own_list(loan)
                    THEN [loans EXCEPT ![customer_id].repayments = mutated]
                    ELSE loans
    /\ lastcall' = Call("repayments", customer_id, Return(NoValue))
    /\ UNCHANGED <<customers, inflight>>

(* Every call runs from its first line to its return before the next   *)
(* call starts: no thread is ever between a check and its mutation.     *)
Next ==
    \/ \E name \in Names : create_customer(name)
    \/ \E customer_id \in CustomerIds, amount \in LendAmounts, interest_rate \in InterestRates :
            lend(customer_id, amount, interest_rate)
    \/ \E customer_id \in CustomerIds, amount \in RepayAmounts :
            repay(customer_id, amount)
    \/ \E customer_id \in CustomerIds : get_customer_info(customer_id)
    \/ \E amount \in LendAmounts, interest_rate \in InterestRates :
            new_Loan(InvalidCustomerObject, amount, interest_rate)
    \/ \E customer_id \in CustomerIds, mutation \in ListMutations, amount \in RepayAmounts :
            mutate_repayments(customer_id, mutation, amount)

Spec == Init /\ [][Next]_vars

(* ------------------------------------------------------------------ *)
(* Calls of several threads on one bank.  Neither lend nor repay takes  *)
(* a lock, so a thread can be suspended between the checks of a call    *)
(* and its mutation while another thread runs.                          *)
(* ------------------------------------------------------------------ *)

(* The arguments the threads pass: one valid loan, and repayments up to *)
(* its principal.                                                       *)
ThreadLendAmounts == {10 * Unit}
ThreadInterestRates == {5}
ThreadRepayAmounts == {5 * Unit, 10 * Unit}

(* NumiBank.lend up to the constructed Loan: the customer is found, has *)
(* no loan, and Loan() returned; the store is still to come.  A call    *)
(* whose check fails raises at once and mutates nothing.                *)
lend_check(t, customer_id, amount, interest_rate) ==
    /\ inflight[t].pc # "checked"
    /\ lend_outcome(customer_id, amount, interest_rate).exc = NoError
    /\ inflight' = [inflight EXCEPT ![t] = Checked("lend", customer_id, amount, interest_rate)]
    /\ UNCHANGED <<customers, loans, lastcall>>

(* NumiBank.lend from self.loans[customer_id] = loan to the return. *)
lend_store(t) ==
    /\ inflight[t].pc = "checked"
    /\ inflight[t].op = "lend"
    /\ LET customer_id == inflight[t].customer_id
           loan == Loan(customers[customer_id], inflight[t].amount, inflight[t].interest_rate)
       IN  /\ loans' = [c \in DOMAIN loans \cup {customer_id} |->
                           IF c = customer_id THEN loan.value ELSE loans[c]]
           /\ lastcall' = Call("lend", customer_id, loan)
           /\ inflight' = [inflight EXCEPT ![t] = Returned("lend", customer_id)]
    /\ UNCHANGED customers

(* NumiBank.repay and Loan.add_repayment up to the append: the customer *)
(* and the loan are found, and the amount is positive and not above the *)
(* outstanding debt as it is now.                                       *)
repay_check(t, customer_id, amount) ==
    /\ inflight[t].pc # "checked"
    /\ repay_outcome(customer_id, amount).exc = NoError
    /\ inflight' = [inflight EXCEPT ![t] = Checked("repay", customer_id, amount, 0)]
    /\ UNCHANGED <<customers, loans, lastcall>>

(* Loan.add_repayment from self._repayments.append(amount) to the       *)
(* return of repay; an append that would grow the sequence past the     *)
(* bound of the model is not made.                                      *)
repay_append(t) ==
    /\ inflight[t].pc = "checked"
    /\ inflight[t].op = "repay"
    /\ LET customer_id == inflight[t].customer_id
       IN  /\ Len(loans[customer_id].repayments) < MaxRepayments
           /\ loans' = [loans EXCEPT ![customer_id].repayments = Append(@, inflight[t].amount)]
           /\ lastcall' = Call("repay", customer_id, Return(NoValue))
           /\ inflight' = [inflight EXCEPT ![t] = Returned("repay", customer_id)]
    /\ UNCHANGED customers

(* Threads calling create_customer, lend and repay, each call either    *)
(* run in one piece or suspended between its checks and its mutation.   *)
ThreadsNext ==
    \/ \E name \in Names : create_customer(name)
    \/ \E customer_id \in CustomerIds, amount \in ThreadLendAmounts,
          interest_rate \in ThreadInterestRates :
            lend(customer_id, amount, interest_rate)
    \/ \E customer_id \in CustomerIds, amount \in ThreadRepayAmounts :
            repay(customer_id, amount)
    \/ \E t \in Threads, customer_id \in CustomerIds, amount \in ThreadLendAmounts,
          interest_rate \in ThreadInterestRates :
            lend_check(t, customer_id, amount, interest_rate)
    \/ \E t \in Threads : lend_store(t)
    \/ \E t \in Threads, customer_id \in CustomerIds, amount \in ThreadRepayAmounts :
            repay_check(t, customer_id, amount)
    \/ \E t \in Threads : repay_append(t)

SpecThreads == Init /\ [][ThreadsNext]_vars

(* ------------------------------------------------------------------ *)
(* Properties.  Every step of the bank is one call, and lastcall' names *)
(* the operation called, the customer id passed and the outcome.        *)
(* ------------------------------------------------------------------ *)
HasLoan(customer_id) == customer_id \in DOMAIN loans

(* principal * (1 + interest_rate), in hundredths of a hundredth. *)
DebtCeilingScaled(loan) == loan.amount * (Unit + loan.interest_rate)

IsPrefix(s, t) == Len(s) <= Len(t) /\ SubSeq(t, 1, Len(s)) = s

(* C1: in every reachable state every registered loan satisfies           *)
(* sum(repayments) <= principal * (1 + interest_rate).                    *)
C1_RepaymentsWithinCeiling ==
    \A c \in DOMAIN loans :
        total_repayments(loans[c]) * Unit <= DebtCeilingScaled(loans[c])

(* A loan with interest whose repayments add up to exactly the ceiling. *)
C1_Witness ==
    \E c \in DOMAIN loans :
        /\ loans[c].interest_rate > 0
        /\ Len(loans[c].repayments) = 2
        /\ total_repayments(loans[c]) * Unit = DebtCeilingScaled(loans[c])

(* C2: immediately after a successful lend, before any repayment, the     *)
(* loan's outstanding_debt is principal plus simple interest, P + P*R.    *)
C2_FreshDebtIncludesInterest ==
    (lastcall.op = "lend" /\ lastcall.exc = NoError) =>
        LET loan == loans[lastcall.customer_id]
        IN  outstanding_debt(loan) * Unit = DebtCeilingScaled(loan)

C4_FirstRepaymentUpToCeiling ==
    \A c \in DOMAIN loans : \A amount \in RepayAmounts :
        (/\ loans[c].repayments = <<>>
         /\ 0 < amount
         /\ amount * Unit <= DebtCeilingScaled(loans[c]))
        => LET outcome == add_repayment(loans[c], amount)
           IN  /\ outcome.exc = NoError
               /\ outstanding_debt(outcome.value) * Unit
                    = DebtCeilingScaled(loans[c]) - amount * Unit
               /\ total_repayments(outcome.value) = amount

(* C5: lend on a customer who already has a registered loan fails with    *)
(* CustomerHasOutstandingLoanError and leaves the loan registry unchanged,*)
(* whatever the arguments and whatever the loan's outstanding debt.       *)
C5_LendWithLoanFails ==
    [][(lastcall'.op = "lend" /\ HasLoan(lastcall'.customer_id))
       => (/\ lastcall'.exc = "CustomerHasOutstandingLoanError"
           /\ loans' = loans)]_vars

(* A lend refused on a customer whose loan is paid off. *)
C5_Witness ==
    /\ lastcall.op = "lend"
    /\ lastcall.exc = "CustomerHasOutstandingLoanError"
    /\ loans[lastcall.customer_id].repayments # <<>>
    /\ outstanding_debt(loans[lastcall.customer_id]) = 0

(* C6: a registered loan stays registered in every later state: no step   *)
(* removes it or replaces it (customer, principal and rate stay, and the  *)
(* repayment sequence only grows at its end).                             *)
C6_LoanStaysRegistered ==
    [][\A c \in DOMAIN loans :
          /\ c \in DOMAIN loans'
          /\ loans'[c].customer = loans[c].customer
          /\ loans'[c].amount = loans[c].amount
          /\ loans'[c].interest_rate = loans[c].interest_rate
          /\ IsPrefix(loans[c].repayments, loans'[c].repayments)]_vars

(* A repayment that has just brought a loan's debt to zero: the loan is   *)
(* still registered.                                                      *)
C6_Witness ==
    /\ lastcall.op = "repay"
    /\ lastcall.exc = NoError
    /\ HasLoan(lastcall.customer_id)
    /\ outstanding_debt(loans[lastcall.customer_id]) = 0

(* C7: repay with an amount <= 0 on a customer with a registered loan     *)
(* fails with InvalidLoanRepaymentAmountError "Amount must be positive"   *)
(* and records no repayment.                                              *)
C7_NonPositiveRepayRejected ==
    [][\A c \in CustomerIds, amount \in RepayAmounts :
          (/\ lastcall'.op = "repay"
           /\ lastcall'.customer_id = c
           /\ HasLoan(c)
           /\ amount <= 0
           /\ repay(c, amount))
          => (/\ lastcall'.exc = "InvalidLoanRepaymentAmountError"
              /\ lastcall'.message = "Amount must be positive"
              /\ loans' = loans)]_vars

(* C8: repay with a positive amount above the loan's current              *)
(* outstanding_debt fails with InvalidLoanRepaymentAmountError "Amount    *)
(* exceeds outstanding debt" and leaves the repayments unchanged.         *)
(* The example: lend 20 at 0.10, repay 10 (debt 12), then repay 15. *)
C8_Example ==
    LET lent == Loan(Customer("Muniu Kariuki", "id1"), 20 * Unit, 10).value
        paid == add_repayment(lent, 10 * Unit)
        refused == add_repayment(paid.value, 15 * Unit)
    IN  /\ paid.exc = NoError
        /\ outstanding_debt(paid.value) = 12 * Unit
        /\ refused.exc = "InvalidLoanRepaymentAmountError"
        /\ refused.message = "Amount exceeds outstanding debt"
        /\ repayments(paid.value) = <<10 * Unit>>

C9_UnknownCustomerFails ==
    [][(/\ lastcall'.op \in {"lend", "repay"}
        /\ lastcall'.customer_id \notin DOMAIN customers)
       => (/\ lastcall'.exc = "CustomerNotFoundError"
           /\ UNCHANGED <<customers, loans>>)]_vars

(* A lend refused for an unregistered id while another customer is        *)
(* registered and has a loan.                                             *)
C9_Witness ==
    /\ lastcall.op = "lend"
    /\ lastcall.exc = "CustomerNotFoundError"
    /\ lastcall.customer_id \notin DOMAIN customers
    /\ loans # << >>

(* C10: repay on a registered customer without a registered loan fails    *)
(* with LoanNotFoundError, whatever the amount, and changes no state.     *)
C10_RepayWithoutLoanFails ==
    [][(/\ lastcall'.op = "repay"
        /\ lastcall'.customer_id \in DOMAIN customers
        /\ ~HasLoan(lastcall'.customer_id))
       => (/\ lastcall'.exc = "LoanNotFoundError"
           /\ UNCHANGED <<customers, loans>>)]_vars

(* A repay refused for a registered customer who has no loan. *)
C10_Witness ==
    /\ lastcall.op = "repay"
    /\ lastcall.exc = "LoanNotFoundError"
    /\ lastcall.customer_id \in DOMAIN customers
    /\ ~HasLoan(lastcall.customer_id)

RateInRange(interest_rate) ==
    MINIMUM_INTEREST_RATE <= interest_rate /\ interest_rate <= MAXIMUM_INTEREST_RATE

AmountInRange(amount) ==
    MINIMUM_LOAN_AMOUNT <= amount /\ amount <= MAXIMUM_LOAN_AMOUNT

(* C11: lend for a registered customer without a loan, at a rate outside  *)
(* [MINIMUM_INTEREST_RATE, MAXIMUM_INTEREST_RATE], fails with             *)
(* InvalidInterestRateError and registers no loan.                        *)
C11_RateOutOfRangeRejected ==
    [][\A c \in CustomerIds, amount \in LendAmounts, interest_rate \in InterestRates :
          (/\ lastcall'.op = "lend"
           /\ lastcall'.customer_id = c
           /\ c \in DOMAIN customers
           /\ ~HasLoan(c)
           /\ ~RateInRange(interest_rate)
           /\ lend(c, amount, interest_rate))
          => (/\ lastcall'.exc = "InvalidInterestRateError"
              /\ loans' = loans)]_vars

(* C12: lend for a registered customer without a loan, at a valid rate    *)
(* and with a principal outside [MINIMUM_LOAN_AMOUNT, MAXIMUM_LOAN_AMOUNT]*)
(* fails with InvalidLoanAmountError, its message naming the bounds, and  *)
(* registers no loan.                                                     *)
C12_AmountOutOfRangeRejected ==
    [][\A c \in CustomerIds, amount \in LendAmounts, interest_rate \in InterestRates :
          (/\ lastcall'.op = "lend"
           /\ lastcall'.customer_id = c
           /\ c \in DOMAIN customers
           /\ ~HasLoan(c)
           /\ RateInRange(interest_rate)
           /\ ~AmountInRange(amount)
           /\ lend(c, amount, interest_rate))
          => (/\ lastcall'.exc = "InvalidLoanAmountError"
              /\ lastcall'.message
                   = "Loan amount must be between {MINIMUM_LOAN_AMOUNT} and {MAXIMUM_LOAN_AMOUNT}"
              /\ loans' = loans)]_vars

(* C13: a lend or repay call that fails, for any reason and in any state, *)
(* leaves the customer registry, the loan registry and every loan as they *)
(* were before the call.                                                  *)
C13_FailedCallChangesNothing ==
    [][(lastcall'.op \in {"lend", "repay"} /\ lastcall'.exc # NoError)
       => UNCHANGED <<customers, loans>>]_vars

(* A repay refused by the loan itself, on a loan that has repayments. *)
C13_Witness ==
    /\ lastcall.op = "repay"
    /\ lastcall.exc \in {"ValueError", "InvalidLoanRepaymentAmountError"}
    /\ loans[lastcall.customer_id].repayments # <<>>

(* C14: a successful lend(customer_id, P, R) registers exactly one new    *)
(* loan, under customer_id, holding P, R, the registered Customer and an  *)
(* empty repayment sequence; the customer registry and every other        *)
(* customer's loan are unchanged.                                         *)
C14_LendRegistersOneLoan ==
    [][\A c \in CustomerIds, amount \in LendAmounts, interest_rate \in InterestRates :
          (/\ lastcall'.op = "lend"
           /\ lastcall'.customer_id = c
           /\ lastcall'.exc = NoError
           /\ lend(c, amount, interest_rate))
          => (/\ ~HasLoan(c)
              /\ DOMAIN loans' = DOMAIN loans \cup {c}
              /\ loans'[c].amount = amount
              /\ loans'[c].interest_rate = interest_rate
              /\ loans'[c].customer = customers[c]
              /\ loans'[c].repayments = <<>>
              /\ \A other \in DOMAIN loans : loans'[other] = loans[other]
              /\ customers' = customers)]_vars

(* A loan just lent while another customer has a loan with repayments. *)
C14_Witness ==
    /\ lastcall.op = "lend"
    /\ lastcall.exc = NoError
    /\ \E other \in DOMAIN loans :
          other # lastcall.customer_id /\ loans[other].repayments # <<>>

(* C15: a successful repay(customer_id, A) only appends A at the end of   *)
(* that customer's repayment sequence: the loan's principal, rate and     *)
(* customer, all other loans and the customer registry are unchanged.     *)
C15_RepayAppendsOnly ==
    [][\A c \in CustomerIds, amount \in RepayAmounts :
          (/\ lastcall'.op = "repay"
           /\ lastcall'.customer_id = c
           /\ lastcall'.exc = NoError
           /\ repay(c, amount))
          => (/\ DOMAIN loans' = DOMAIN loans
              /\ loans'[c].repayments = Append(loans[c].repayments, amount)
              /\ IsPrefix(loans[c].repayments, loans'[c].repayments)
              /\ loans'[c].amount = loans[c].amount
              /\ loans'[c].interest_rate = loans[c].interest_rate
              /\ loans'[c].customer = loans[c].customer
              /\ \A other \in DOMAIN loans \ {c} : loans'[other] = loans[other]
              /\ customers' = customers)]_vars

(* A second, different repayment just made while another loan exists. *)
C15_Witness ==
    /\ lastcall.op = "repay"
    /\ lastcall.exc = NoError
    /\ Len(loans[lastcall.customer_id].repayments) = 2
    /\ loans[lastcall.customer_id].repayments[1] # loans[lastcall.customer_id].repayments[2]
    /\ \E other \in DOMAIN loans : other # lastcall.customer_id

(* C16: create_customer succeeds in every state, also when the name is    *)
(* that of an existing customer: it adds exactly one customer, under an   *)
(* id no registered customer has, and leaves the existing customers and   *)
(* the loan registry unchanged.                                           *)
C16_CreateCustomerAddsOne ==
    [][lastcall'.op = "create_customer"
       => LET id == lastcall'.customer_id
          IN  /\ lastcall'.exc = NoError
              /\ id \notin DOMAIN customers
              /\ DOMAIN customers' = DOMAIN customers \cup {id}
              /\ customers'[id].id = id
              /\ customers'[id].name \in Names
              /\ \A c \in DOMAIN customers : customers'[c] = customers[c]
              /\ loans' = loans]_vars

(* A customer just created under the name of an existing customer who has *)
(* a loan.                                                                *)
C16_Witness ==
    /\ lastcall.op = "create_customer"
    /\ \E c \in DOMAIN customers :
          /\ c # lastcall.customer_id
          /\ customers[c].name = customers[lastcall.customer_id].name
          /\ HasLoan(c)

(* C17: get_customer_info never raises and never changes the state; it  *)
(* returns None for an id that is not registered, and otherwise the     *)
(* registered Customer with the customer's registered Loan, or with a   *)
(* null loan when the customer has none.                                *)
C17_GetCustomerInfoIsQuery ==
    [][lastcall'.op = "get_customer_info"
         => LET c == lastcall'.customer_id
                info == get_customer_info_outcome(c)
            IN  /\ lastcall'.exc = NoError
                /\ UNCHANGED <<customers, loans>>
                /\ info.exc = NoError
                /\ IF c \notin DOMAIN customers
                   THEN info.value = NoValue
                   ELSE /\ info.value.customer = customers[c]
                        /\ IF HasLoan(c)
                           THEN info.value.loan = loans[c]
                           ELSE info.value.loan = NoValue]_vars

(* get_customer_info was called for a registered customer without a     *)
(* loan while another customer has a loan with a repayment.             *)
C17_Witness ==
    /\ lastcall.op = "get_customer_info"
    /\ lastcall.customer_id \in DOMAIN customers
    /\ ~HasLoan(lastcall.customer_id)
    /\ \E c \in DOMAIN loans : loans[c].repayments # <<>>

(* C18: Validator.is_positive and Validator.is_within_range are total   *)
(* predicates: for every value they return true or false (value > 0;    *)
(* lower_bound <= value <= upper_bound) and never raise, so no call on  *)
(* the bank ends with an exception of a validator.                      *)
C18_ValidatorsAreTotal ==
    /\ lastcall.exc # "ValueError"
    /\ \A value \in RepayAmounts :
          /\ is_positive(value).exc = NoError
          /\ is_positive(value).value = (value > 0)
    /\ \A value \in LendAmounts :
          LET r == is_within_range(value, MINIMUM_LOAN_AMOUNT, MAXIMUM_LOAN_AMOUNT)
          IN  /\ r.exc = NoError
              /\ r.value = (MINIMUM_LOAN_AMOUNT <= value /\ value <= MAXIMUM_LOAN_AMOUNT)
    /\ \A value \in InterestRates :
          LET r == is_within_range(value, MINIMUM_INTEREST_RATE, MAXIMUM_INTEREST_RATE)
          IN  /\ r.exc = NoError
              /\ r.value = (MINIMUM_INTEREST_RATE <= value /\ value <= MAXIMUM_INTEREST_RATE)

(* C19: constructing a Loan directly with a valid principal and rate    *)
(* but an object that is not a Customer fails with NumiBankError,       *)
(* "Invalid customer object"; lend never fails that way, because it     *)
(* passes the registered Customer.                                      *)
C19_InvalidCustomerObjectRejected ==
    [][/\ \A amount \in LendAmounts, interest_rate \in InterestRates :
             (/\ lastcall'.op = "Loan"
              /\ lastcall'.customer_id = NoArg
              /\ AmountInRange(amount)
              /\ RateInRange(interest_rate)
              /\ new_Loan(InvalidCustomerObject, amount, interest_rate))
             => (/\ lastcall'.exc = "NumiBankError"
                 /\ lastcall'.message = "Invalid customer object")
       /\ lastcall'.op = "lend" => lastcall'.exc # "NumiBankError"]_vars

(* A Loan was constructed with the invalid object and refused for it,   *)
(* while a loan lent through the bank is registered.                    *)
C19_Witness ==
    /\ lastcall.op = "Loan"
    /\ lastcall.customer_id = NoArg
    /\ lastcall.exc = "NumiBankError"
    /\ loans # <<>>

C21_RepayLowersDebtByAmount ==
    [][\A c \in CustomerIds, amount \in RepayAmounts :
          (/\ lastcall'.op = "repay"
           /\ lastcall'.customer_id = c
           /\ lastcall'.exc = NoError
           /\ repay(c, amount))
          => outstanding_debt(loans'[c]) = outstanding_debt(loans[c]) - amount]_vars

(* C22: every registered loan has outstanding_debt >= 0, and every      *)
(* recorded repayment is strictly positive.                             *)
C22_DebtAndRepaymentsInRange ==
    \A c \in DOMAIN loans :
        /\ outstanding_debt(loans[c]) >= 0
        /\ \A i \in 1..Len(loans[c].repayments) : loans[c].repayments[i] > 0

(* A loan at a rate above 0 repaid down to a debt of exactly 0. *)
C22_Witness ==
    \E c \in DOMAIN loans :
        /\ loans[c].interest_rate > 0
        /\ Len(loans[c].repayments) = MaxRepayments
        /\ outstanding_debt(loans[c]) = 0

(* A loan is paid off: no debt left, and the repayments add up to       *)
(* principal * (1 + rate).                                              *)
PaidOff(loan) ==
    /\ loan.repayments # <<>>
    /\ outstanding_debt(loan) = 0
    /\ sum(loan.repayments) * Unit = DebtCeilingScaled(loan)

(* The repay calls that pay the loan of c off from the present state:   *)
(* the whole outstanding debt, and after that call whatever debt is     *)
(* left; every one of them succeeds and the last leaves the loan paid   *)
(* off.                                                                 *)
CanBePaidOff(c) ==
    IF PaidOff(loans[c]) THEN TRUE
    ELSE LET first == repay_outcome(c, outstanding_debt(loans[c]))
         IN  /\ first.exc = NoError
             /\ IF PaidOff(first.value) THEN TRUE
                ELSE LET second == add_repayment(first.value, outstanding_debt(first.value))
                     IN  /\ second.exc = NoError
                         /\ PaidOff(second.value)

(* C23: every registered loan can be fully repaid by finitely many      *)
(* successful repay calls, ending with outstanding_debt = 0 and         *)
(* sum(repayments) = principal * (1 + rate); and on a loan whose debt   *)
(* is 0 every repay of a positive amount fails with the exceeds-debt    *)
(* error and leaves the loan as it is.                                  *)
C23_LoanCanBePaidOff ==
    /\ [](\A c \in DOMAIN loans : CanBePaidOff(c))
    /\ [][\A c \in CustomerIds, amount \in RepayAmounts :
             (/\ lastcall'.op = "repay"
              /\ lastcall'.customer_id = c
              /\ c \in DOMAIN customers
              /\ HasLoan(c)
              /\ outstanding_debt(loans[c]) = 0
              /\ amount > 0
              /\ repay(c, amount))
             => (/\ lastcall'.exc = "InvalidLoanRepaymentAmountError"
                 /\ lastcall'.message = "Amount exceeds outstanding debt"
                 /\ loans' = loans)]_vars

(* A repay on a loan at a rate above 0 that is paid off was refused. *)
C23_Witness ==
    /\ lastcall.op = "repay"
    /\ lastcall.exc = "InvalidLoanRepaymentAmountError"
    /\ lastcall.customer_id \in DOMAIN loans
    /\ loans[lastcall.customer_id].interest_rate > 0
    /\ PaidOff(loans[lastcall.customer_id])

(* C24: the keys of the loan registry are keys of the customer          *)
(* registry, every loan refers to the Customer registered under its     *)
(* key, and no customer is ever removed or replaced.                    *)
C24_LoansBelongToCustomers ==
    /\ [](/\ DOMAIN loans \subseteq DOMAIN customers
          /\ \A c \in DOMAIN loans : loans[c].customer = customers[c])
    /\ [][\A c \in DOMAIN customers :
             c \in DOMAIN customers' /\ customers'[c] = customers[c]]_vars

(* Two customers are registered, one with a loan and one without. *)
C24_Witness ==
    /\ DOMAIN customers = CustomerIds
    /\ DOMAIN loans # {}
    /\ DOMAIN loans # DOMAIN customers
    /\ \E c \in DOMAIN loans : loans[c].repayments # <<>>

(* C25: the error of a lend call follows a fixed precedence:            *)
(* CustomerNotFoundError for an unregistered id, then                   *)
(* CustomerHasOutstandingLoanError for a customer with a loan, then     *)
(* InvalidInterestRateError for an invalid rate (also when the amount   *)
(* is invalid too), then InvalidLoanAmountError for an invalid amount.  *)
C25_LendErrorPrecedence ==
    [][\A c \in CustomerIds, amount \in LendAmounts, interest_rate \in InterestRates :
          (/\ lastcall'.op = "lend"
           /\ lastcall'.customer_id = c
           /\ lend(c, amount, interest_rate))
          => lastcall'.exc =
                IF c \notin DOMAIN customers THEN "CustomerNotFoundError"
                ELSE IF HasLoan(c) THEN "CustomerHasOutstandingLoanError"
                ELSE IF ~RateInRange(interest_rate) THEN "InvalidInterestRateError"
                ELSE IF ~AmountInRange(amount) THEN "InvalidLoanAmountError"
                ELSE NoError]_vars

(* The repayments of a loan add up to more than principal * (1 + rate). *)
Overpaid(loan) == sum(loan.repayments) * Unit > DebtCeilingScaled(loan)

(* C26: the checks and the mutation of repay and of lend are separate   *)
(* steps, and only a call suspended between them breaks the limits: a   *)
(* call that runs in one piece, in whatever state the threads left the  *)
(* bank, neither replaces a registered loan nor pushes the repayments   *)
(* of a loan above principal * (1 + rate).  (The witness is the state   *)
(* interleaved calls reach: a loan overpaid by two repay calls, and two *)
(* lend calls that both succeeded for one customer.)                    *)
C26_AtomicCallsKeepLimits ==
    [][inflight' = inflight
         => \A c \in DOMAIN loans :
               /\ c \in DOMAIN loans'
               /\ loans'[c] # loans[c]
                    => /\ [loans'[c] EXCEPT !.repayments = loans[c].repayments] = loans[c]
                       /\ IsPrefix(loans[c].repayments, loans'[c].repayments)
                       /\ ~Overpaid(loans'[c])]_vars

(* Two interleaved repay calls have overpaid one customer's loan, and   *)
(* both threads are back from a successful lend for the other customer, *)
(* so the second store replaced the loan of the first.                  *)
C26_Witness ==
    \E c1 \in DOMAIN loans, c2 \in DOMAIN loans :
        /\ c1 # c2
        /\ Overpaid(loans[c1])
        /\ \A t \in Threads : inflight[t] = Returned("lend", c2)

====
